---- MODULE Spec2Model ----
(***************************************************************************)
(* A model of src/src/app.ts: the ProjectState store, the validator, the   *)
(* input form, the two project columns and the drag-and-drop handlers.     *)
(*                                                                         *)
(* Strings are sequences of one-character strings.  A number is a record   *)
(* [nan, n]: an integer n, or NaN.  An optional field is <<>> (undefined)  *)
(* or <<v>>.  Objects with identity (Project, ProjectState, arrays handed  *)
(* to listeners) are references into heaps, so aliasing is visible.        *)
(***************************************************************************)
EXTENDS Integers, Sequences, FiniteSets, TLC

VARIABLES
  pc,            \* position of the top-level script (lines 78, 381, 382, 383), then "run"
  instance,      \* ProjectState.instance: 0 (undefined) or a reference into stores
  stores,        \* heap of ProjectState objects: [projects, listeners]
  projectState,  \* the module constant of line 78: 0 before it is assigned
  refs,          \* the references getInstance() has returned, in call order
  objs,          \* heap of Project objects
  form,          \* ProjectInput: the three input elements' values
  cols,          \* the two ProjectLists: assignedProjects, rendered rows, droppable class
  drag,          \* the platform's drag gesture and its DataTransfer
  ev,            \* what the last event handler did (alerts, calls, deliveries)
  rule,          \* validator harness: the rule under test
  result         \* validator harness: validateForm(rule), <<>> before it ran

vars == <<pc, instance, stores, projectState, refs, objs, form, cols, drag, ev, rule, result>>

-----------------------------------------------------------------------------
(* Bounds *)

MaxProjects == 2
MaxListeners == 4
MaxRefs == 3

-----------------------------------------------------------------------------
(* Values *)

None == <<>>
Some(x) == <<x>>

Num(n) == [nan |-> FALSE, n |-> n]
NaN == [nan |-> TRUE, n |-> 0]

Str(s) == [t |-> "string", s |-> s, v |-> Num(0)]
NumVal(v) == [t |-> "number", s |-> <<>>, v |-> v]

Active == "Active"
Finished == "Finished"

Project(id, title, description, people, status) ==
  [id |-> id, title |-> title, description |-> description,
   people |-> people, status |-> status]

WhiteSpace == {" "}
Digits == <<"0", "1", "2", "3", "4", "5", "6", "7", "8", "9">>

IsDigit(c) == \E i \in 1..10 : Digits[i] = c
DigitVal(c) == (CHOOSE i \in 1..10 : Digits[i] = c) - 1

\* String.prototype.trim
RECURSIVE TrimLeft(_)
TrimLeft(s) ==
  IF s # <<>> /\ Head(s) \in WhiteSpace THEN TrimLeft(Tail(s)) ELSE s

RECURSIVE TrimRight(_)
TrimRight(s) ==
  IF s # <<>> /\ s[Len(s)] \in WhiteSpace
  THEN TrimRight(SubSeq(s, 1, Len(s) - 1)) ELSE s

trim(s) == TrimRight(TrimLeft(s))

\* value of a run of decimal digits
RECURSIVE DigitsValue(_)
DigitsValue(s) ==
  IF s = <<>> THEN 0
  ELSE 10 * DigitsValue(SubSeq(s, 1, Len(s) - 1)) + DigitVal(s[Len(s)])

AllDigits(s) == s # <<>> /\ \A i \in 1..Len(s) : IsDigit(s[i])

\* unary plus on a string (ToNumber), for strings over whitespace, sign,
\* decimal digits and letters
ToNumber(s) ==
  LET t == trim(s) IN
  IF t = <<>> THEN Num(0)
  ELSE IF AllDigits(t) THEN Num(DigitsValue(t))
  ELSE IF Head(t) = "-" /\ AllDigits(Tail(t)) THEN Num(0 - DigitsValue(Tail(t)))
  ELSE IF Head(t) = "+" /\ AllDigits(Tail(t)) THEN Num(DigitsValue(Tail(t)))
  ELSE NaN

\* Number.prototype.toString for an integer or NaN
RECURSIVE NatToString(_)
NatToString(n) ==
  IF n < 10 THEN <<Digits[n + 1]>>
  ELSE NatToString(n \div 10) \o <<Digits[(n % 10) + 1]>>

NumToString(v) ==
  IF v.nan THEN <<"N", "a", "N">>
  ELSE IF v.n < 0 THEN <<"-">> \o NatToString(0 - v.n)
  ELSE NatToString(v.n)

\* value.toString() of a string | number
toString(val) == IF val.t = "string" THEN val.s ELSE NumToString(val.v)

\* JavaScript's > and < on numbers: false when either side is NaN
Gt(a, b) == ~a.nan /\ ~b.nan /\ a.n > b.n
Lt(a, b) == ~a.nan /\ ~b.nan /\ a.n < b.n

-----------------------------------------------------------------------------
(* Validator *)

Validation(value, required, minLength, maxLength, min, max) ==
  [value |-> value, required |-> required, minLength |-> minLength,
   maxLength |-> maxLength, min |-> min, max |-> max]

validateFormInclusive(validationInput) ==
  LET v == validationInput
      v1 == IF v.required THEN Len(trim(toString(v.value))) # 0 ELSE TRUE
      v2 == IF v.minLength # None /\ v.value.t = "string"
            THEN v1 /\ Len(v.value.s) >= v.minLength[1] ELSE v1
      v3 == IF v.maxLength # None /\ v.value.t = "string"
            THEN v2 /\ Len(v.value.s) <= v.maxLength[1] ELSE v2
      v4 == IF v.min # None /\ v.value.t = "number"
            THEN v3 /\ ~Lt(v.value.v, Num(v.min[1])) /\ ~v.value.v.nan ELSE v3
      v5 == IF v.max # None /\ v.value.t = "number"
            THEN v4 /\ ~Gt(v.value.v, Num(v.max[1])) /\ ~v.value.v.nan ELSE v4
  IN v5

\* lines 129-162: isValid is updated by each applicable check in turn
validateForm(validationInput) ==
  LET v == validationInput
      v0 == TRUE
      v1 == IF v.required THEN v0 /\ Len(trim(toString(v.value))) # 0 ELSE v0
      v2 == IF v.minLength # None /\ v.value.t = "string"
            THEN v1 /\ Len(v.value.s) > v.minLength[1] ELSE v1
      v3 == IF v.maxLength # None /\ v.value.t = "string"
            THEN v2 /\ Len(v.value.s) > v.maxLength[1] ELSE v2
      v4 == IF v.min # None /\ v.value.t = "number"
            THEN v3 /\ Gt(v.value.v, Num(v.min[1])) ELSE v3
      v5 == IF v.max # None /\ v.value.t = "number"
            THEN v4 /\ Lt(v.value.v, Num(v.max[1])) ELSE v4
  IN v5

-----------------------------------------------------------------------------
(* State store *)

\* new ProjectState(): lines 38 and 47
NewProjectState == [projects |-> <<>>, listeners |-> <<>>]

getInstanceFresh(inst, heap) ==
  LET h == Append(heap, NewProjectState)
  IN [instance |-> Len(h), stores |-> h, ret |-> Len(h)]

\* lines 54-60
getInstance(inst, heap) ==
  IF inst # 0
  THEN [instance |-> inst, stores |-> heap, ret |-> inst]
  ELSE LET h == Append(heap, NewProjectState)
       IN [instance |-> Len(h), stores |-> h, ret |-> Len(h)]

addListenerUnique(s, listenerFunction) ==
  IF \E i \in 1..Len(s.listeners) : s.listeners[i] = listenerFunction
  THEN s
  ELSE [s EXCEPT !.listeners = Append(@, listenerFunction)]

\* lines 40-42
addListener(s, listenerFunction) ==
  [s EXCEPT !.listeners = Append(@, listenerFunction)]

\* A listener is the closure of line 345 (one per column), or a callback of a
\* client of the store, told apart by what it does with the array it is given.
ColumnListener(type) == [kind |-> "column", type |-> type, beh |-> "filter"]
ClientListener(beh) == [kind |-> "client", type |-> "none", beh |-> beh]

\* ProjectItem: lines 279-284 (element id := project.id, line 103)
ProjectItem(heap, project) == [id |-> heap[project].id, project |-> project]

renderProjectsKeep(col, heap) ==
  [col EXCEPT !.rows =
     col.rows \o [i \in 1..Len(col.assignedProjects) |->
                    ProjectItem(heap, col.assignedProjects[i])]]

\* lines 367-377: the list is emptied, then one ProjectItem per assigned
\* project is inserted "beforeend"
renderProjects(col, heap) ==
  LET cleared == <<>>
  IN [col EXCEPT !.rows =
        cleared \o [i \in 1..Len(col.assignedProjects) |->
                      ProjectItem(heap, col.assignedProjects[i])]]

\* Array.prototype.slice(): a new array with the same elements.  arrs is the
\* heap of arrays of one notification round; arrs[1] is this.projects.
sliceAlias(arrs, a) == [arrs |-> arrs, ref |-> a]

slice(arrs, a) == [arrs |-> Append(arrs, arrs[a]), ref |-> Len(arrs) + 1]

Reverse(s) == [i \in 1..Len(s) |-> s[Len(s) + 1 - i]]

columnListenerAll(type, w, a) ==
  LET col == [w.cols[type] EXCEPT !.assignedProjects = w.arrs[a]]
  IN [w EXCEPT !.cols[type] = renderProjects(col, w.objs)]

\* lines 345-356: the column's listener
columnListener(type, w, a) ==
  LET projects == w.arrs[a]
      keep(item) == IF type = "active"
                    THEN w.objs[item].status = Active
                    ELSE w.objs[item].status = Finished
      filteredProjects == SelectSeq(projects, keep)
      col == [w.cols[type] EXCEPT !.assignedProjects = filteredProjects]
  IN [w EXCEPT !.cols[type] = renderProjects(col, w.objs)]

\* a client's callback: what it does to the array (and the records) it received
clientListener(beh, w, a) ==
  LET items == w.arrs[a] IN
  CASE beh = "record" -> w
    [] beh = "pop" ->
         [w EXCEPT !.arrs[a] = SubSeq(items, 1, Len(items) - 1)]
    [] beh = "push" ->
         [w EXCEPT !.arrs[a] = IF items = <<>> THEN items ELSE Append(items, items[1])]
    [] beh = "replace" ->
         [w EXCEPT !.arrs[a] = IF items = <<>> THEN items
                               ELSE [items EXCEPT ![1] = items[Len(items)]]]
    [] beh = "reverse" ->
         [w EXCEPT !.arrs[a] = Reverse(items)]
    [] beh = "setFinished" ->
         IF items = <<>> THEN w
         ELSE [w EXCEPT !.objs[items[Len(items)]].status = Finished]

CallListener(l, w, a) ==
  IF l.kind = "column" THEN columnListener(l.type, w, a)
  ELSE clientListener(l.beh, w, a)

Delivery(i, fn, items) == [listener |-> i, fn |-> fn, items |-> items]

RECURSIVE notifyDistinct(_, _, _)
notifyDistinct(listeners, w, i) ==
  IF i > Len(listeners) THEN w
  ELSE IF \E j \in 1..(i - 1) : listeners[j] = listeners[i]
  THEN notifyDistinct(listeners, w, i + 1)
  ELSE LET c == slice(w.arrs, 1)
           w1 == [w EXCEPT !.arrs = c.arrs,
                           !.delivered = Append(@, Delivery(i, listeners[i], c.arrs[c.ref]))]
       IN notifyDistinct(listeners, CallListener(listeners[i], w1, c.ref), i + 1)

RECURSIVE notifySkipFirst(_, _, _)
notifySkipFirst(listeners, w, i) ==
  IF i > Len(listeners) THEN w
  ELSE IF i = 1 THEN notifySkipFirst(listeners, w, 2)
  ELSE LET c == slice(w.arrs, 1)
           w1 == [w EXCEPT !.arrs = c.arrs,
                           !.delivered = Append(@, Delivery(i, listeners[i], c.arrs[c.ref]))]
       IN notifySkipFirst(listeners, CallListener(listeners[i], w1, c.ref), i + 1)

\* lines 72-74: each listener, in order, is called with this.projects.slice()
RECURSIVE notify(_, _, _)
notify(listeners, w, i) ==
  IF i > Len(listeners) THEN w
  ELSE LET c == slice(w.arrs, 1)
           w1 == [w EXCEPT !.arrs = c.arrs,
                           !.delivered = Append(@, Delivery(i, listeners[i], c.arrs[c.ref]))]
       IN notify(listeners, CallListener(listeners[i], w1, c.ref), i + 1)

addProjectFinished(s, heap, cs, title, description, numOfPeople, rnd) ==
  LET newProject == Project(rnd, title, description, numOfPeople, Finished)
      heap1 == Append(heap, newProject)
      w0 == [arrs |-> <<Append(s.projects, Len(heap1))>>, objs |-> heap1,
             cols |-> cs, delivered |-> <<>>]
      w1 == notify(s.listeners, w0, 1)
  IN [store |-> [s EXCEPT !.projects = w1.arrs[1]], objs |-> w1.objs,
      cols |-> w1.cols, delivered |-> w1.delivered]

addProjectUnshift(s, heap, cs, title, description, numOfPeople, rnd) ==
  LET newProject == Project(rnd, title, description, numOfPeople, Active)
      heap1 == Append(heap, newProject)
      w0 == [arrs |-> <<(<<Len(heap1)>> \o s.projects)>>, objs |-> heap1,
             cols |-> cs, delivered |-> <<>>]
      w1 == notify(s.listeners, w0, 1)
  IN [store |-> [s EXCEPT !.projects = w1.arrs[1]], objs |-> w1.objs,
      cols |-> w1.cols, delivered |-> w1.delivered]

\* lines 62-75; rnd is Math.random().toString()
addProject(s, heap, cs, title, description, numOfPeople, rnd) ==
  LET newProject == Project(rnd, title, description, numOfPeople, Active)
      heap1 == Append(heap, newProject)
      w0 == [arrs |-> <<Append(s.projects, Len(heap1))>>, objs |-> heap1,
             cols |-> cs, delivered |-> <<>>]
      w1 == notify(s.listeners, w0, 1)
  IN [store |-> [s EXCEPT !.projects = w1.arrs[1]], objs |-> w1.objs,
      cols |-> w1.cols, delivered |-> w1.delivered]

-----------------------------------------------------------------------------
(* What an event handler did, for the properties to read *)

Ev(kind) ==
  [kind |-> kind, store |-> 0, alerts |-> 0, calls |-> <<>>, delivered |-> <<>>,
   prevented |-> FALSE, logged |-> <<>>]

-----------------------------------------------------------------------------
(* Input form *)

\* lines 186-199: the three input elements, empty in a fresh form
NewForm == [title |-> <<>>, description |-> <<>>, people |-> <<>>]

titleValidationInput(enterTitle) ==
  Validation(Str(enterTitle), TRUE, None, None, None, None)

descriptionValidationInput(enterDescription) ==
  Validation(Str(enterDescription), TRUE, Some(5), None, None, None)

peopleValidationInput(enterPeople) ==
  Validation(NumVal(ToNumber(enterPeople)), TRUE, None, None, Some(0), Some(5))

fetchUserInputAny(f) ==
  LET enterTitle == f.title
      enterDescription == f.description
      enterPeople == f.people
  IN IF ~validateForm(titleValidationInput(enterTitle))
        /\ ~validateForm(descriptionValidationInput(enterDescription))
        /\ ~validateForm(peopleValidationInput(enterPeople))
     THEN [alerts |-> 1, ret |-> None]
     ELSE [alerts |-> 0,
           ret |-> Some(<<enterTitle, enterDescription, ToNumber(enterPeople)>>)]

\* lines 208-238
fetchUserInput(f) ==
  LET enterTitle == f.title
      enterDescription == f.description
      enterPeople == f.people
  IN IF ~validateForm(titleValidationInput(enterTitle))
        \/ ~validateForm(descriptionValidationInput(enterDescription))
        \/ ~validateForm(peopleValidationInput(enterPeople))
     THEN [alerts |-> 1, ret |-> None]
     ELSE [alerts |-> 0,
           ret |-> Some(<<enterTitle, enterDescription, ToNumber(enterPeople)>>)]

\* lines 243-247
clearInput(f) == [title |-> <<>>, description |-> <<>>, people |-> <<>>]

submitHandlerClearsAlways(f, r, s, heap, cs, rnd) ==
  LET userInput == fetchUserInput(f) IN
  IF userInput.ret # None
  THEN LET title == userInput.ret[1][1]
           desc == userInput.ret[1][2]
           people == userInput.ret[1][3]
           a == addProject(s, heap, cs, title, desc, people, rnd)
       IN [form |-> clearInput(f), store |-> a.store, objs |-> a.objs, cols |-> a.cols,
           ev |-> [Ev("submit") EXCEPT !.store = r,
                                       !.calls = <<<<title, desc, people>>>>,
                                       !.delivered = a.delivered,
                                       !.logged = <<title, desc, people>>,
                                       !.prevented = TRUE]]
  ELSE [form |-> clearInput(f), store |-> s, objs |-> heap, cols |-> cs,
        ev |-> [Ev("submit") EXCEPT !.alerts = userInput.alerts, !.prevented = TRUE]]

\* lines 250-261; r is projectState, s the store it refers to
submitHandler(f, r, s, heap, cs, rnd) ==
  LET userInput == fetchUserInput(f) IN
  IF userInput.ret # None
  THEN LET title == userInput.ret[1][1]
           desc == userInput.ret[1][2]
           people == userInput.ret[1][3]
           a == addProject(s, heap, cs, title, desc, people, rnd)
       IN [form |-> clearInput(f), store |-> a.store, objs |-> a.objs, cols |-> a.cols,
           ev |-> [Ev("submit") EXCEPT !.store = r,
                                       !.calls = <<<<title, desc, people>>>>,
                                       !.delivered = a.delivered,
                                       !.logged = <<title, desc, people>>,
                                       !.prevented = TRUE]]
  ELSE [form |-> f, store |-> s, objs |-> heap, cols |-> cs,
        ev |-> [Ev("submit") EXCEPT !.alerts = userInput.alerts, !.prevented = TRUE]]

-----------------------------------------------------------------------------
(* Drag and drop *)

Types == {"active", "finished"}

\* lines 313-319: a column before any notification
NewProjectLists == [assignedProjects |-> <<>>, rows |-> <<>>, droppable |-> FALSE]

\* the DataTransfer of a starting drag
EmptyTransfer == [types |-> <<>>, data |-> <<>>, effectAllowed |-> "uninitialized"]

HasFormat(dt, format) == \E i \in 1..Len(dt.types) : dt.types[i] = format
FormatIndex(dt, format) == CHOOSE i \in 1..Len(dt.types) : dt.types[i] = format

\* DataTransfer.setData / getData
setData(dt, format, d) ==
  IF HasFormat(dt, format)
  THEN [dt EXCEPT !.data[FormatIndex(dt, format)] = d]
  ELSE [dt EXCEPT !.types = Append(@, format), !.data = Append(@, d)]

getData(dt, format) ==
  IF HasFormat(dt, format) THEN dt.data[FormatIndex(dt, format)] ELSE ""

dragStartHandlerHtml(item, heap, dt) ==
  [setData(dt, "text/html", heap[item.project].id) EXCEPT !.effectAllowed = "move"]

\* lines 287-290
dragStartHandler(item, heap, dt) ==
  [setData(dt, "text/plain", heap[item.project].id) EXCEPT !.effectAllowed = "move"]

\* lines 291-293
dragEndHandler == <<"DragEnd">>

\* lines 322-328; dataTransfer is None (null) or Some(dt)
dragOverHandlerAnyType(col, dataTransfer) ==
  IF dataTransfer # None /\ HasFormat(dataTransfer[1], "text/plain")
  THEN [col |-> [col EXCEPT !.droppable = TRUE], prevented |-> TRUE]
  ELSE [col |-> col, prevented |-> FALSE]

dragOverHandler(col, dataTransfer) ==
  IF dataTransfer # None
     /\ Len(dataTransfer[1].types) >= 1
     /\ dataTransfer[1].types[1] = "text/plain"
  THEN [col |-> [col EXCEPT !.droppable = TRUE], prevented |-> TRUE]
  ELSE [col |-> col, prevented |-> FALSE]

\* lines 329-331
dropHandler(dataTransfer) == <<getData(dataTransfer[1], "text/plain")>>

\* lines 334-337
dragLeaveHandler(col) == [col EXCEPT !.droppable = FALSE]

NoItem == [type |-> "none", index |-> 0]

NoDrag ==
  [phase |-> "idle", source |-> "none", item |-> NoItem, dataTransfer |-> None,
   over |-> "none", accepted |-> FALSE]

-----------------------------------------------------------------------------
(* Inputs *)

\* results of Math.random().toString(): nothing keeps two calls apart
RandomIds == {"0.25", "0.75"}

TitleInputs == {<<>>, <<" ">>, <<" ", "b">>}

DescriptionInputs ==
  {<<"a", "b", "c", "d">>,
   <<"a", "b", "c", "d", "e">>,
   <<"a", "b", "c", "d", "e", "f">>,
   <<" ", " ", " ", " ", " ", " ">>}

PeopleInputs ==
  {<<>>, <<"5">>, <<"x">>, <<"-", "1">>, <<" ", "4">>}

\* the dataTransfer of a dragover that no project row started: null (a
\* synthetic event), files, text dragged from elsewhere, markup first
ForeignTransfers ==
  {None,
   Some([types |-> <<>>, data |-> <<>>, effectAllowed |-> "all"]),
   Some([types |-> <<"Files">>, data |-> <<"f">>, effectAllowed |-> "all"]),
   Some([types |-> <<"text/plain">>, data |-> <<"hello">>, effectAllowed |-> "copy"]),
   Some([types |-> <<"text/html", "text/plain">>, data |-> <<"<b>", "b">>,
         effectAllowed |-> "copy"])}

\* arguments and callbacks of a client that calls the store directly
ApiTitles == {<<>>, <<"t">>}
ApiDescriptions == {<<"d">>}
ApiPeople == {Num(7)}
ClientBehaviours == {"record", "pop", "push", "replace", "reverse"}

DefaultRule == Validation(Str(<<>>), FALSE, None, None, None, None)

-----------------------------------------------------------------------------
(* The program *)

Init ==
  /\ pc = "l78"
  /\ instance = 0
  /\ stores = <<>>
  /\ projectState = 0
  /\ refs = <<>>
  /\ objs = <<>>
  /\ form = NewForm
  /\ cols = [t \in Types |-> NewProjectLists]
  /\ drag = NoDrag
  /\ ev = Ev("none")
  /\ rule = DefaultRule
  /\ result = None

\* line 78: const projectState = ProjectState.getInstance()
Load78 ==
  /\ pc = "l78"
  /\ LET g == getInstance(instance, stores) IN
       /\ instance' = g.instance
       /\ stores' = g.stores
       /\ projectState' = g.ret
       /\ refs' = Append(refs, g.ret)
  /\ pc' = "l381"
  /\ ev' = Ev("load")
  /\ UNCHANGED <<objs, form, cols, drag, rule, result>>

\* line 381: new ProjectInput()
Load381 ==
  /\ pc = "l381"
  /\ form' = NewForm
  /\ pc' = "l382"
  /\ UNCHANGED <<instance, stores, projectState, refs, objs, cols, drag, ev, rule, result>>

\* lines 382 and 383: new ProjectLists(type); its configure() registers the
\* column's listener with projectState (line 345)
LoadList(at, type, next) ==
  /\ pc = at
  /\ cols' = [cols EXCEPT ![type] = NewProjectLists]
  /\ stores' = [stores EXCEPT ![projectState] = addListener(@, ColumnListener(type))]
  /\ pc' = next
  /\ UNCHANGED <<instance, projectState, refs, objs, form, drag, ev, rule, result>>

Load382 == LoadList("l382", "active", "l383")
Load383 == LoadList("l383", "finished", "run")

\* the user edits one input element; device input is suppressed during a drag
Input ==
  /\ pc = "run"
  /\ drag.phase = "idle"
  /\ \/ \E v \in TitleInputs : form' = [form EXCEPT !.title = v]
     \/ \E v \in DescriptionInputs : form' = [form EXCEPT !.description = v]
     \/ \E v \in PeopleInputs : form' = [form EXCEPT !.people = v]
  /\ ev' = Ev("input")
  /\ UNCHANGED <<pc, instance, stores, projectState, refs, objs, cols, drag, rule, result>>

\* the form's submit event: submitHandler
Submit ==
  /\ pc = "run"
  /\ drag.phase = "idle"
  /\ Len(objs) < MaxProjects \/ fetchUserInput(form).ret = None
  /\ \E rnd \in RandomIds :
       LET h == submitHandler(form, projectState, stores[projectState], objs, cols, rnd) IN
         /\ form' = h.form
         /\ stores' = [stores EXCEPT ![projectState] = h.store]
         /\ objs' = h.objs
         /\ cols' = h.cols
         /\ ev' = h.ev
  /\ UNCHANGED <<pc, instance, projectState, refs, drag, rule, result>>

\* dragstart on the i-th rendered row of a column
DragStart ==
  /\ pc = "run"
  /\ drag.phase = "idle"
  /\ \E type \in Types : \E i \in 1..Len(cols[type].rows) :
       drag' = [phase |-> "dragging", source |-> "row",
                item |-> [type |-> type, index |-> i],
                dataTransfer |-> Some(dragStartHandler(cols[type].rows[i], objs, EmptyTransfer)),
                over |-> "none", accepted |-> FALSE]
  /\ ev' = Ev("dragstart")
  /\ UNCHANGED <<pc, instance, stores, projectState, refs, objs, form, cols, rule, result>>

\* something that is no project row is dragged into the page
ForeignDragStart ==
  /\ pc = "run"
  /\ drag.phase = "idle"
  /\ \E dt \in ForeignTransfers :
       drag' = [phase |-> "dragging", source |-> "foreign", item |-> NoItem,
                dataTransfer |-> dt,
                over |-> "none", accepted |-> FALSE]
  /\ ev' = Ev("foreign")
  /\ UNCHANGED <<pc, instance, stores, projectState, refs, objs, form, cols, rule, result>>

\* dragover on a column
DragOver ==
  /\ pc = "run"
  /\ drag.phase = "dragging"
  /\ \E type \in Types :
       /\ drag.over \in {"none", type}
       /\ LET h == dragOverHandler(cols[type], drag.dataTransfer) IN
            /\ cols' = [cols EXCEPT ![type] = h.col]
            /\ drag' = [drag EXCEPT !.over = type, !.accepted = h.prevented]
            /\ ev' = [Ev("dragover") EXCEPT !.prevented = h.prevented]
  /\ UNCHANGED <<pc, instance, stores, projectState, refs, objs, form, rule, result>>

\* dragleave on the column the pointer is over
DragLeave ==
  /\ pc = "run"
  /\ drag.phase = "dragging"
  /\ drag.over \in Types
  /\ cols' = [cols EXCEPT ![drag.over] = dragLeaveHandler(@)]
  /\ drag' = [drag EXCEPT !.over = "none", !.accepted = FALSE]
  /\ ev' = Ev("dragleave")
  /\ UNCHANGED <<pc, instance, stores, projectState, refs, objs, form, rule, result>>

DropMoves ==
  /\ pc = "run"
  /\ drag.phase = "dragging"
  /\ drag.over \in Types
  /\ drag.accepted
  /\ LET prjId == getData(drag.dataTransfer[1], "text/plain")
         status == IF drag.over = "active" THEN Active ELSE Finished
         moved == [p \in 1..Len(objs) |->
                     IF objs[p].id = prjId THEN [objs[p] EXCEPT !.status = status]
                     ELSE objs[p]]
         s == stores[projectState]
         w == notify(s.listeners,
                     [arrs |-> <<s.projects>>, objs |-> moved, cols |-> cols,
                      delivered |-> <<>>], 1)
     IN /\ objs' = w.objs
        /\ cols' = w.cols
        /\ ev' = [Ev("drop") EXCEPT !.logged = <<prjId>>, !.delivered = w.delivered]
  /\ drag' = [drag EXCEPT !.phase = "dropped"]
  /\ UNCHANGED <<pc, instance, stores, projectState, refs, form, rule, result>>

\* drop on the column the pointer is over: the platform fires it only when
\* the last dragover there was default-prevented, and fires no dragleave
Drop ==
  /\ pc = "run"
  /\ drag.phase = "dragging"
  /\ drag.over \in Types
  /\ drag.accepted
  /\ drag' = [drag EXCEPT !.phase = "dropped"]
  /\ ev' = [Ev("drop") EXCEPT !.logged = dropHandler(drag.dataTransfer)]
  /\ UNCHANGED <<pc, instance, stores, projectState, refs, objs, form, cols, rule, result>>

\* the gesture ends: after a drop, or cancelled away from the columns;
\* dragend fires on the row the drag started on, a foreign drag fires nothing
DragEnd ==
  /\ pc = "run"
  /\ \/ drag.phase = "dropped"
     \/ drag.phase = "dragging" /\ drag.over = "none"
  /\ drag' = NoDrag
  /\ ev' = IF drag.source = "row"
           THEN [Ev("dragend") EXCEPT !.logged = dragEndHandler]
           ELSE Ev("foreignend")
  /\ UNCHANGED <<pc, instance, stores, projectState, refs, objs, form, cols, rule, result>>

Next ==
  \/ Load78 \/ Load381 \/ Load382 \/ Load383
  \/ Input \/ Submit
  \/ DragStart \/ ForeignDragStart \/ DragOver \/ DragLeave \/ Drop \/ DragEnd

Spec == Init /\ [][Next]_vars

-----------------------------------------------------------------------------
(* The store under a client that calls its three operations directly *)

RefsOf(seq) == {seq[i] : i \in 1..Len(seq)}

\* ProjectState.getInstance()
ClientGetInstance ==
  /\ pc = "run"
  /\ Len(refs) < MaxRefs
  /\ LET g == getInstance(instance, stores) IN
       /\ instance' = g.instance
       /\ stores' = g.stores
       /\ refs' = Append(refs, g.ret)
       /\ ev' = [Ev("getInstance") EXCEPT !.store = g.ret]
  /\ UNCHANGED <<pc, projectState, objs, form, cols, drag, rule, result>>

\* r.addListener(callback), r a reference getInstance() returned
ClientAddListenerReplay ==
  /\ pc = "run"
  /\ \E r \in RefsOf(refs) : \E beh \in ClientBehaviours :
       /\ Len(stores[r].listeners) < MaxListeners
       /\ stores' = [stores EXCEPT ![r] = addListener(@, ClientListener(beh))]
       /\ ev' = [Ev("addListener") EXCEPT
                  !.store = r,
                  !.delivered = <<Delivery(Len(stores[r].listeners) + 1,
                                           ClientListener(beh), stores[r].projects)>>]
  /\ UNCHANGED <<pc, instance, projectState, refs, objs, form, cols, drag, rule, result>>

ClientAddListener ==
  /\ pc = "run"
  /\ \E r \in RefsOf(refs) : \E beh \in ClientBehaviours :
       /\ Len(stores[r].listeners) < MaxListeners
       /\ stores' = [stores EXCEPT ![r] = addListener(@, ClientListener(beh))]
       /\ ev' = [Ev("addListener") EXCEPT !.store = r]
  /\ UNCHANGED <<pc, instance, projectState, refs, objs, form, cols, drag, rule, result>>

\* r.addProject(title, description, numOfPeople)
ClientAddProject ==
  /\ pc = "run"
  /\ Len(objs) < MaxProjects
  /\ \E r \in RefsOf(refs) : \E title \in ApiTitles : \E description \in ApiDescriptions :
     \E numOfPeople \in ApiPeople : \E rnd \in RandomIds :
       LET a == addProject(stores[r], objs, cols, title, description, numOfPeople, rnd) IN
         /\ stores' = [stores EXCEPT ![r] = a.store]
         /\ objs' = a.objs
         /\ cols' = a.cols
         /\ ev' = [Ev("addProject") EXCEPT !.store = r,
                                           !.calls = <<<<title, description, numOfPeople>>>>,
                                           !.delivered = a.delivered]
  /\ UNCHANGED <<pc, instance, projectState, refs, form, drag, rule, result>>

NextApi ==
  \/ Load78 \/ Load381 \/ Load382 \/ Load383
  \/ ClientGetInstance \/ ClientAddListener \/ ClientAddProject

SpecApi == Init /\ [][NextApi]_vars

-----------------------------------------------------------------------------
(* The store under a client whose callbacks also write into the Project *)
(* records of the array they receive *)

DeepBehaviours == {"record", "setFinished"}

\* r.addListener(callback)
ClientAddListenerDeep ==
  /\ pc = "run"
  /\ \E r \in RefsOf(refs) : \E beh \in DeepBehaviours :
       /\ Len(stores[r].listeners) < MaxListeners
       /\ stores' = [stores EXCEPT ![r] = addListener(@, ClientListener(beh))]
       /\ ev' = [Ev("addListener") EXCEPT !.store = r]
  /\ UNCHANGED <<pc, instance, projectState, refs, objs, form, cols, drag, rule, result>>

NextDeep ==
  \/ Load78 \/ Load381 \/ Load382 \/ Load383
  \/ ClientGetInstance \/ ClientAddListenerDeep \/ ClientAddProject

SpecDeep == Init /\ [][NextDeep]_vars

-----------------------------------------------------------------------------
(* The validator on its own: a rule is drawn, validateForm is applied *)

RuleValues ==
  {Str(<<>>), Str(<<" ">>), Str(<<"a", "b", "c">>), Str(<<"a", "b", "c", "d", "e">>),
   NumVal(Num(0)), NumVal(Num(3)), NumVal(Num(5)), NumVal(Num(-2)), NumVal(NaN)}

Bounds == {None, Some(0), Some(3), Some(5)}

Rules ==
  {Validation(value, required, minLength, maxLength, min, max) :
     value \in RuleValues, required \in BOOLEAN, minLength \in Bounds,
     maxLength \in {None, Some(3)}, min \in {None, Some(0)}, max \in {None, Some(5)}}

InitValidate ==
  /\ pc = "l78"
  /\ instance = 0
  /\ stores = <<>>
  /\ projectState = 0
  /\ refs = <<>>
  /\ objs = <<>>
  /\ form = NewForm
  /\ cols = [t \in Types |-> NewProjectLists]
  /\ drag = NoDrag
  /\ ev = Ev("none")
  /\ rule \in Rules
  /\ result = None

Validate ==
  /\ result = None
  /\ result' = Some(validateForm(rule))
  /\ UNCHANGED <<pc, instance, stores, projectState, refs, objs, form, cols, drag, ev, rule>>

NextRule ==
  /\ result # None
  /\ rule' \in Rules
  /\ result' = None
  /\ UNCHANGED <<pc, instance, stores, projectState, refs, objs, form, cols, drag, ev>>

NextValidate == Validate \/ NextRule

SpecValidate == InitValidate /\ [][NextValidate]_vars

-----------------------------------------------------------------------------
(* Properties of the store *)

\* the step called addProject (every handler of the running page writes ev)
AddProjectCalled == ev'.calls # <<>>

\* C1: every addProject call grows the store's sequence by exactly one new
\* Project carrying the given title, description and people with status
\* Active, and every listener registered at the call receives the previous
\* projects, in order, followed by the new one.
C1_AddProjectAppendsAndNotifies ==
  [][AddProjectCalled =>
       LET r == ev'.store
           before == stores[r].projects
           after == stores'[r].projects
           new == after[Len(after)]
           args == ev'.calls[1]
       IN /\ Len(after) = Len(before) + 1
          /\ new \notin RefsOf(before)
          /\ new \notin 1..Len(objs)
          /\ objs'[new].title = args[1]
          /\ objs'[new].description = args[2]
          /\ objs'[new].people = args[3]
          /\ objs'[new].status = Active
          /\ Len(ev'.delivered) = Len(stores[r].listeners)
          /\ \A i \in 1..Len(ev'.delivered) :
               /\ ev'.delivered[i].fn = stores[r].listeners[i]
               /\ ev'.delivered[i].items = Append(before, new)]_vars

C1_Witness ==
  /\ ev.kind = "addProject"
  /\ Len(stores[ev.store].projects) >= 2
  /\ Len(ev.delivered) >= 3

\* C2: no two projects of a store have the same id.
C2_IdsUnique ==
  \A r \in 1..Len(stores) :
    \A i, j \in 1..Len(stores[r].projects) :
      i # j => objs[stores[r].projects[i]].id # objs[stores[r].projects[j]].id

Mutates(fn) == fn.kind = "client" /\ fn.beh \in {"pop", "push", "replace", "reverse"}

\* C3: whatever a listener does to the array it received (remove, append,
\* replace, reorder), the store's own sequence is the previous sequence plus
\* the new project, and every listener of the round was handed exactly that.
C3_SnapshotIsACopy ==
  [][AddProjectCalled =>
       LET r == ev'.store IN
         /\ stores'[r].projects = Append(stores[r].projects, Len(objs'))
         /\ \A i \in 1..Len(ev'.delivered) :
              ev'.delivered[i].items = stores'[r].projects]_vars

C3_Witness ==
  /\ ev.kind = "addProject"
  /\ Len(stores[ev.store].projects) >= 2
  /\ \E i, j \in 1..Len(ev.delivered) :
       /\ i < j
       /\ Mutates(ev.delivered[i].fn)
       /\ ev.delivered[i].fn.beh # ev.delivered[j].fn.beh

\* C4: getInstance() constructs a ProjectState on its first call only and
\* returns that one object ever after, so every returned reference sees the
\* same projects and listeners.
C4_Singleton ==
  /\ Len(stores) <= 1
  /\ (refs = <<>>) <=> (instance = 0)
  /\ instance = 0 => stores = <<>>
  /\ \A i \in 1..Len(refs) : refs[i] = instance /\ refs[i] = projectState
  /\ \A i, j \in 1..Len(refs) : stores[refs[i]] = stores[refs[j]]

C4_Witness ==
  /\ Len(refs) >= 3
  /\ Len(stores[refs[3]].projects) >= 1
  /\ Len(stores[refs[1]].listeners) >= 3

\* C8: an addProject call makes one notification round: every registration,
\* duplicates included, is invoked exactly once, in registration order;
\* addListener always adds a registration and none is ever removed.
C8_OneRoundInOrder ==
  [][/\ AddProjectCalled =>
          /\ Len(ev'.calls) = 1
          /\ Len(ev'.delivered) = Len(stores[ev'.store].listeners)
          /\ \A i \in 1..Len(ev'.delivered) :
               /\ ev'.delivered[i].listener = i
               /\ ev'.delivered[i].fn = stores[ev'.store].listeners[i]
     /\ ~AddProjectCalled => ev'.delivered = <<>>
     /\ ev'.kind = "addListener" =>
          Len(stores'[ev'.store].listeners) = Len(stores[ev'.store].listeners) + 1
     /\ \A r \in 1..Len(stores) :
          /\ r <= Len(stores')
          /\ Len(stores'[r].listeners) >= Len(stores[r].listeners)
          /\ SubSeq(stores'[r].listeners, 1, Len(stores[r].listeners)) = stores[r].listeners
    ]_vars

C8_Witness ==
  /\ ev.kind = "addProject"
  /\ \E i, j \in 1..Len(ev.delivered) :
       i # j /\ ev.delivered[i].fn = ev.delivered[j].fn

-----------------------------------------------------------------------------
(* Properties of the form *)

\* the three rules of the form, applied to the field values of a form
TitleRulePasses(f) ==
  validateForm(Validation(Str(f.title), TRUE, None, None, None, None))
DescriptionRulePasses(f) ==
  validateForm(Validation(Str(f.description), TRUE, Some(5), None, None, None))
PeopleRulePasses(f) ==
  validateForm(Validation(NumVal(ToNumber(f.people)), TRUE, None, None, Some(0), Some(5)))

AllRulesPass(f) == TitleRulePasses(f) /\ DescriptionRulePasses(f) /\ PeopleRulePasses(f)

Submitted == ev'.kind = "submit"

\* C5: a submission that fails validation leaves the store, the projects, the
\* columns and the three fields as they were, invokes no listener and raises
\* exactly one alert; the page is left as it was, and any submission whose
\* three rules pass, after failures too, adds its project.
C5_FailedSubmitChangesNothing ==
  [][Submitted =>
       /\ ~AllRulesPass(form) =>
            /\ stores' = stores
            /\ objs' = objs
            /\ cols' = cols
            /\ form' = form
            /\ ev'.delivered = <<>>
            /\ ev'.calls = <<>>
            /\ ev'.alerts = 1
            /\ <<pc', instance', projectState', refs', drag'>>
                 = <<pc, instance, projectState, refs, drag>>
       /\ AllRulesPass(form) =>
            /\ ev'.alerts = 0
            /\ Len(stores'[projectState].projects) = Len(stores[projectState].projects) + 1
    ]_vars

C5_Witness ==
  /\ ev.kind = "submit"
  /\ ev.alerts = 1
  /\ Len(stores[projectState].projects) >= 1
  /\ TitleRulePasses(form)
  /\ DescriptionRulePasses(form)
  /\ ~PeopleRulePasses(form)

\* C6: a submission calls addProject once, with the entered title and
\* description and the number the people field denotes, and then clears the
\* three fields, exactly when the three rules pass; so every stored project
\* has a non-blank title, a description of at least 5 characters and a people
\* count from 0 to 5.
C6_SubmitAddsIffValid ==
  [][/\ Submitted =>
          IF AllRulesPass(form)
          THEN /\ ev'.calls = <<<<form.title, form.description, ToNumber(form.people)>>>>
               /\ ev'.store = projectState
               /\ form' = [title |-> <<>>, description |-> <<>>, people |-> <<>>]
               /\ Len(objs') = Len(objs) + 1
               /\ objs'[Len(objs')].title = form.title
               /\ objs'[Len(objs')].description = form.description
               /\ objs'[Len(objs')].people = ToNumber(form.people)
          ELSE /\ ev'.calls = <<>>
               /\ form' = form
               /\ objs' = objs
     /\ \A p \in 1..Len(objs') :
          /\ \E i \in 1..Len(objs'[p].title) : objs'[p].title[i] \notin WhiteSpace
          /\ Len(objs'[p].description) >= 5
          /\ ~objs'[p].people.nan
          /\ objs'[p].people.n \in 0..5
    ]_vars

C6_Witness ==
  /\ ev.kind = "submit"
  /\ Len(ev.calls) = 1
  /\ form = NewForm
  /\ Len(objs) >= 2
  /\ objs[Len(objs)].people = Num(4)

-----------------------------------------------------------------------------
(* Properties of the validator *)

HasVisibleChar(s) == \E i \in 1..Len(s) : s[i] \notin WhiteSpace

\* the conjunction of the checks that apply to a rule
ChecksOf(r) ==
  /\ r.required =>
       (r.value.t = "number" \/ HasVisibleChar(r.value.s))
  /\ (r.minLength # None /\ r.value.t = "string") =>
       Len(r.value.s) > r.minLength[1]
  /\ (r.maxLength # None /\ r.value.t = "string") =>
       Len(r.value.s) > r.maxLength[1]
  /\ (r.min # None /\ r.value.t = "number") =>
       (~r.value.v.nan /\ r.value.v.n > r.min[1])
  /\ (r.max # None /\ r.value.t = "number") =>
       (~r.value.v.nan /\ r.value.v.n < r.max[1])

EmptyRequired == Validation(Str(<<>>), TRUE, None, None, None, None)
AbcRequired == Validation(Str(<<"a", "b", "c">>), TRUE, None, None, None, None)
FiveOfZeroToFive == Validation(NumVal(Num(5)), FALSE, None, None, Some(0), Some(5))

\* C7: validateForm returns a boolean, the conjunction of the applicable
\* checks (required: the trimmed string form is non-empty; minLength and
\* maxLength, on strings only: length > bound; min and max, on numbers only:
\* value > min, value < max); "" required is false, "abc" required is true,
\* 5 within min 0 and max 5 is false.
C7_ValidateIsConjunction ==
  result # None =>
    /\ result[1] \in BOOLEAN
    /\ result[1] = ChecksOf(rule)
    /\ rule = EmptyRequired => result[1] = FALSE
    /\ rule = AbcRequired => result[1] = TRUE
    /\ rule = FiveOfZeroToFive => result[1] = FALSE

C7_Witness ==
  /\ result = Some(FALSE)
  /\ rule = FiveOfZeroToFive

-----------------------------------------------------------------------------
(* Properties of the columns and of the rows *)

WithStatus(projects, status) ==
  SelectSeq(projects, LAMBDA p : objs[p].status = status)

\* C9: when a successful submission has returned, the Active column's
\* assigned projects are the store's Active projects in store order, the new
\* project among them, and the Finished column's are the store's Finished
\* projects, the new project not among them.
C9_ColumnsFollowSubmit ==
  (ev.kind = "submit" /\ ev.calls # <<>>) =>
    LET projects == stores[projectState].projects
        new == Len(objs)
    IN /\ projects # <<>>
       /\ projects[Len(projects)] = new
       /\ cols["active"].assignedProjects = WithStatus(projects, Active)
       /\ cols["finished"].assignedProjects = WithStatus(projects, Finished)
       /\ new \in RefsOf(cols["active"].assignedProjects)
       /\ new \notin RefsOf(cols["finished"].assignedProjects)

C9_Witness ==
  /\ ev.kind = "submit"
  /\ ev.calls # <<>>
  /\ Len(cols["active"].assignedProjects) >= 2
  /\ Len(ev.delivered) = 2

\* C10: dragstart on a rendered row puts exactly the id of the row's project
\* into the transfer as text/plain and allows the effect "move"; dragstart and
\* dragend leave the store, the projects and both columns as they were.
C10_DragStartCarriesId ==
  [][/\ ev'.kind = "dragstart" =>
          LET row == cols[drag'.item.type].rows[drag'.item.index]
              dt == drag'.dataTransfer[1]
          IN /\ drag'.dataTransfer # None
             /\ dt.types = <<"text/plain">>
             /\ getData(dt, "text/plain") = objs[row.project].id
             /\ getData(dt, "text/plain") = row.id
             /\ row.project \in RefsOf(stores[projectState].projects)
             /\ dt.effectAllowed = "move"
     /\ ev'.kind \in {"dragstart", "dragend"} =>
          /\ stores' = stores
          /\ objs' = objs
          /\ cols' = cols
    ]_vars

C10_Witness ==
  /\ ev.kind = "dragstart"
  /\ drag.item.index = 2
  /\ objs[1].id # objs[2].id
  /\ getData(drag.dataTransfer[1], "text/plain") = objs[2].id

-----------------------------------------------------------------------------
(* Properties of the drag gesture *)

DraggedProject == cols[drag.item.type].rows[drag.item.index].project

\* C11: a drop on either column leaves the store's sequence, every project's
\* status, the listener list and both columns as they were and invokes no
\* listener; the handler only reads the transferred text/plain data, which
\* for a dragged row is the id of the row's project.
C11_DropChangesNothing ==
  [][ev'.kind = "drop" =>
       /\ stores' = stores
       /\ objs' = objs
       /\ cols' = cols
       /\ form' = form
       /\ ev'.delivered = <<>>
       /\ ev'.calls = <<>>
       /\ ev'.logged = <<getData(drag.dataTransfer[1], "text/plain")>>
       /\ drag.source = "row" => ev'.logged = <<objs[DraggedProject].id>>
    ]_vars

C11_Witness ==
  /\ ev.kind = "drop"
  /\ drag.source = "row"
  /\ drag.over = "finished"
  /\ DraggedProject = 2
  /\ ev.logged = <<objs[2].id>>


\* C12: in every state of the page every project has status Active, so the
\* Finished column is assigned, and renders, nothing.
C12_EveryProjectActive ==
  /\ \A p \in 1..Len(objs) : objs[p].status = Active
  /\ \A r \in 1..Len(stores) : \A i \in 1..Len(stores[r].projects) :
       objs[stores[r].projects[i]].status = Active
  /\ cols["finished"].assignedProjects = <<>>
  /\ cols["finished"].rows = <<>>

C12_Witness ==
  /\ drag.phase = "dropped"
  /\ drag.source = "row"
  /\ drag.over = "finished"
  /\ Len(stores[projectState].projects) >= 2

\* C13: once a gesture that a project row started has ended (dropped or
\* cancelled) and the page is idle again, no column's list carries the
\* droppable class; the class is set by dragover only and removed by
\* dragleave only.
C13_NoAffordanceWhenIdle ==
  [][/\ (drag.source = "row" /\ drag'.phase = "idle") =>
          \A t \in Types : ~cols'[t].droppable
     /\ \A t \in Types :
          /\ (~cols[t].droppable /\ cols'[t].droppable) => ev'.kind = "dragover"
          /\ (cols[t].droppable /\ ~cols'[t].droppable) => ev'.kind = "dragleave"
    ]_vars


-----------------------------------------------------------------------------
(* Properties of the snapshot's records and of the sequence *)

\* C14: when a listener changes a field of a Project in the array it received
\* (sets its status to Finished), the store's projects are unchanged: after
\* the round the new project is still Active, the earlier ones are as they
\* were, and no other listener (the Finished column) ever sees one Finished.
C14_RecordsAreDecoupled ==
  [][AddProjectCalled =>
       /\ Len(objs') = Len(objs) + 1
       /\ objs'[Len(objs')].status = Active
       /\ \A p \in 1..Len(objs) : objs'[p] = objs[p]
       /\ cols'["finished"].assignedProjects = <<>>
    ]_vars


IsPrefix(a, b) == Len(a) <= Len(b) /\ SubSeq(b, 1, Len(a)) = a

\* C15: the store's sequence is append-only: across every step the sequence
\* before is a prefix of the sequence after, so no stored project is removed,
\* reordered or replaced; a step that is no addProject call leaves it as it is.
C15_AppendOnly ==
  [][\A r \in 1..Len(stores) :
       /\ r <= Len(stores')
       /\ IsPrefix(stores[r].projects, stores'[r].projects)
       /\ ~AddProjectCalled => stores'[r].projects = stores[r].projects
    ]_vars

C15_Witness ==
  /\ ev.kind = "addProject"
  /\ Len(stores[ev.store].projects) >= 2
  /\ \E i \in 1..Len(ev.delivered) : ev.delivered[i].fn.beh = "reverse"


FirstTypeIsPlainText(dataTransfer) ==
  /\ dataTransfer # None
  /\ Len(dataTransfer[1].types) >= 1
  /\ dataTransfer[1].types[1] = "text/plain"

\* C16: a dragover on a column prevents the default and marks that column
\* droppable exactly when the event has a data transfer whose first type is
\* text/plain, and then changes nothing else of the columns; any other
\* dragover changes no column; no dragover changes the store, the project
\* records or the form.
C16_DragOverAcceptsPlainTextFirst ==
  [][ev'.kind = "dragover" =>
       LET accept == FirstTypeIsPlainText(drag.dataTransfer)
           type == drag'.over
       IN /\ type \in Types
          /\ ev'.prevented = accept
          /\ accept => cols' = [cols EXCEPT ![type].droppable = TRUE]
          /\ ~accept => cols' = cols
          /\ stores' = stores /\ objs' = objs /\ form' = form
    ]_vars

C16_Witness ==
  /\ ev.kind = "dragover"
  /\ drag.source = "row"
  /\ ev.prevented
  /\ cols[drag.over].droppable


\* C17: whenever the page can handle an event, each column's assigned
\* projects are the store's current sequence filtered by the column's status:
\* no handler starts in a state where the store holds a project a column has
\* not been told of.
C17_ColumnsAgreeAtHandlerBoundaries ==
  pc = "run" =>
    LET projects == stores[projectState].projects
    IN /\ cols["active"].assignedProjects = WithStatus(projects, Active)
       /\ cols["finished"].assignedProjects = WithStatus(projects, Finished)
       /\ \A p \in 1..Len(objs) : \E i \in 1..Len(projects) : projects[i] = p

C17_Witness ==
  /\ pc = "run"
  /\ ev.kind = "dragstart"
  /\ Len(stores[projectState].projects) = 2
  /\ cols["active"].assignedProjects = stores[projectState].projects


\* C18: a column's rendered list holds exactly one row per assigned project,
\* in the assigned order, and each row's element id is its project's id; no
\* row of an earlier render is left in the list.
C18_RowsMatchAssignedProjects ==
  \A t \in Types :
    /\ Len(cols[t].rows) = Len(cols[t].assignedProjects)
    /\ \A i \in 1..Len(cols[t].rows) :
         /\ i <= Len(cols[t].assignedProjects)
         /\ cols[t].rows[i].project = cols[t].assignedProjects[i]
         /\ cols[t].rows[i].id = objs[cols[t].assignedProjects[i]].id

C18_Witness ==
  /\ ev.kind = "submit"
  /\ Len(ev.delivered) = 2
  /\ Len(cols["active"].assignedProjects) = 2
  /\ Len(cols["active"].rows) = 2


AddListenerCalled == ev'.kind = "addListener"

\* C19: an addListener call registers the callback without calling it: it
\* delivers nothing and changes no project, record or column.  When the next
\* call on that store is addProject, the listener just registered receives,
\* as its first snapshot, all the projects stored before it registered and
\* the new one.  The page registers both columns, Active first, before any
\* project exists, and afterwards every stored project is in a column.
C19_AddListenerDoesNotCall ==
  [][/\ AddListenerCalled =>
          /\ ev'.delivered = <<>>
          /\ objs' = objs /\ cols' = cols
          /\ stores'[ev'.store].projects = stores[ev'.store].projects
          /\ Len(stores'[ev'.store].listeners) = Len(stores[ev'.store].listeners) + 1
     /\ (ev.kind = "addListener" /\ AddProjectCalled /\ ev'.store = ev.store) =>
          LET last == Len(stores[ev.store].listeners)
              k == Len(stores[ev.store].projects)
          IN /\ Len(ev'.delivered) = last
             /\ ev'.delivered[last].listener = last
             /\ ev'.delivered[last].fn = stores[ev.store].listeners[last]
             /\ Len(ev'.delivered[last].items) = k + 1
             /\ ev'.delivered[last].items = Append(stores[ev.store].projects, Len(objs'))
     /\ pc' # "run" => objs' = <<>>
     /\ pc' = "run" =>
          /\ Len(stores'[projectState'].listeners) >= 2
          /\ stores'[projectState'].listeners[1] = ColumnListener("active")
          /\ stores'[projectState'].listeners[2] = ColumnListener("finished")
          /\ Len(cols'["active"].assignedProjects) + Len(cols'["finished"].assignedProjects)
               = Len(stores'[projectState'].projects)
    ]_vars

C19_Witness ==
  /\ ev.kind = "addListener"
  /\ ev.delivered = <<>>
  /\ Len(stores[ev.store].projects) >= 1
  /\ Len(objs) < MaxProjects

====
